---- MODULE Spec2Model ----
(***************************************************************************)
(* Model of tools/fine_tuning_vibe_coded/convert_to_ggml.py: the driver    *)
(* main() and the four functions it sequences (download_whisper_cpp,       *)
(* setup_whisper_assets, convert_hf_to_ggml, quantize_model), run one or   *)
(* more times against one working directory.                               *)
(*                                                                         *)
(* External tools (git, make, the converter script, the quantizer) are     *)
(* opaque: each invocation returns an exit status drawn from RetCodes and  *)
(* may or may not leave a file behind.  Library calls that can raise       *)
(* (from_pretrained, torch.save, unlink, the asset downloads) succeed or   *)
(* fail nondeterministically.  The executables git, make and the Python    *)
(* interpreter are assumed launchable, and the file system is a POSIX one  *)
(* (the script runs make and build/bin/quantize): Path.rename replaces an  *)
(* existing target.                                                        *)
(***************************************************************************)
EXTENDS Integers, Sequences, FiniteSets, TLC

\* number of consecutive runs of main() against the same working directory
MaxRuns == 2

\* content of a path that does not exist; an existing file carries the
\* number of the run that wrote it
Absent == <<>>
WrittenBy(r) == <<r>>

\* subprocess exit statuses: 0 and one representative non-zero status
RetCodes == {0, 1}

\* quantizations, in list order
quantizations == <<"q8_0", "q5_0", "q4_0">>

\* configurations of the checkpoint's dimension fields
DimKinds == {"positive", "zero", "negative", "missing"}

(***************************************************************************)
(* File names of the output directory: the dot-free tokens of the stem     *)
(* and the suffix.                                                         *)
(***************************************************************************)
FileName(toks, ext) == [toks |-> toks, ext |-> ext]

\* output_dir / "whisper-atc.bin"
ggml_path == FileName(<<"whisper", "atc">>, "bin")

\* output_dir / "whisper_compatible.pt"
compatible_pt == FileName(<<"whisper_compatible">>, "pt")

\* variant: the level is left out of the file name
QuantPath_NoLevel(quant_type) == FileName(<<"whisper", "atc">>, "bin")

\* output_dir / f"whisper-atc-{quant_type}.bin"
QuantPath(quant_type) == FileName(<<"whisper", "atc", quant_type>>, "bin")

\* names the converter script may choose for what it writes into dir-output
ConverterOutputs ==
    { FileName(<<"ggml", "model", "f32">>, "bin"),
      FileName(<<"ggml", "model">>, "bin"),
      FileName(<<"model", "f32">>, "bin") }

QuantLevels == { quantizations[i] : i \in DOMAIN quantizations }

OutputFiles ==
    {ggml_path, compatible_pt} \cup ConverterOutputs
        \cup { QuantPath(q) : q \in QuantLevels }

\* variant: the name is not searched for the marker
IsGgmlFile_SuffixOnly(file) ==
    file.ext \in {"bin", "ggml"}

\* file.suffix in ['.bin', '.ggml'] and 'ggml' in file.name
IsGgmlFile(file) ==
    /\ file.ext \in {"bin", "ggml"}
    /\ \/ file.ext = "ggml"
       \/ \E i \in DOMAIN file.toks : file.toks[i] = "ggml"

VARIABLES
    pc,       \* position of main(): "idle" before the first run
    run,      \* number of the current run
    args,     \* skip_quantization, model_path.exists(), checkpoint dims
    tc,       \* ./whisper.cpp: what exists in it
    out,      \* output directory: file name -> content tag
    log,      \* steps of the current run, each with its outcome
    results,  \* quantize_model's results dict (its keys)
    lvl,      \* index of quantize_model's loop
    clean     \* every earlier run returned from convert_hf_to_ggml normally

vars == <<pc, run, args, tc, out, log, results, lvl, clean>>

Final == {"returned", "failed", "aborted", "done"}

\* a log entry: the step, its exit status (0 on success) and its argument
Ev(op, rc, arg) == [op |-> op, rc |-> rc, arg |-> arg]
Status(ok) == IF ok THEN 0 ELSE 1

Logged(op) == \E i \in DOMAIN log : log[i].op = op
Count(op) == Cardinality({ i \in DOMAIN log : log[i].op = op })
CountArg(op, arg) ==
    Cardinality({ i \in DOMAIN log : log[i].op = op /\ log[i].arg = arg })
LoggedRc(op, rc) == \E i \in DOMAIN log : log[i].op = op /\ log[i].rc = rc

NoToolchain ==
    [present |-> FALSE, built |-> FALSE, script |-> FALSE,
     quantize |-> FALSE, assets |-> 0]

Init ==
    /\ pc = "idle"
    /\ run = 0
    /\ args = [skip |-> FALSE, exists |-> FALSE, dims |-> "positive"]
    /\ tc = NoToolchain
    /\ out = [f \in OutputFiles |-> Absent]
    /\ log = <<>>
    /\ results = {}
    /\ lvl = 1
    /\ clean = TRUE

(***************************************************************************)
(* main(), lines 266-286: parse the arguments, create the output           *)
(* directory, return early if the model path does not exist.               *)
(***************************************************************************)
\* variant: the model path is not tested
MainStart_NoExistsCheck(skip, exists, dims) ==
    /\ pc \in Final \cup {"idle"}
    /\ run < MaxRuns
    /\ run' = run + 1
    /\ args' = [skip |-> skip, exists |-> exists, dims |-> dims]
    /\ log' = <<>>
    /\ results' = {}
    /\ lvl' = 1
    /\ pc' = "provision"
    /\ clean' = (clean /\ (run = 0 \/ Logged("converted")))
    /\ UNCHANGED <<tc, out>>

MainStart(skip, exists, dims) ==
    /\ pc \in Final \cup {"idle"}
    /\ run < MaxRuns
    /\ run' = run + 1
    /\ args' = [skip |-> skip, exists |-> exists, dims |-> dims]
    /\ log' = <<>>
    /\ results' = {}
    /\ lvl' = 1
    /\ pc' = IF exists THEN "provision" ELSE "returned"
    /\ clean' = (clean /\ (run = 0 \/ Logged("converted")))
    /\ UNCHANGED <<tc, out>>

(***************************************************************************)
(* download_whisper_cpp(), called from main() lines 289-293.  A            *)
(* RuntimeError is caught by main, which logs it and returns.              *)
(***************************************************************************)
\* variant: an unbuilt installation is built before it is returned
ProvExists_BuildIfUnbuilt ==
    /\ pc = "provision"
    /\ tc.present
    /\ IF tc.built
       THEN /\ log' = Append(log, Ev("toolchain_ready", 0, ""))
            /\ pc' = "assets"
       ELSE /\ log' = log
            /\ pc' = "build"
    /\ UNCHANGED <<run, clean, args, tc, out, results, lvl>>

\* lines 18-22: the directory exists
ProvExists ==
    /\ pc = "provision"
    /\ tc.present
    /\ log' = Append(log, Ev("toolchain_ready", 0, ""))
    /\ pc' = "assets"
    /\ UNCHANGED <<run, clean, args, tc, out, results, lvl>>

\* variant: the clone's return code is not looked at
ProvClone_IgnoreStatus(rc) ==
    /\ pc = "provision"
    /\ ~tc.present
    /\ log' = Append(log, Ev("clone", rc, ""))
    /\ \E script \in BOOLEAN :
         tc' = [tc EXCEPT !.present = TRUE, !.script = script]
    /\ pc' = "build"
    /\ UNCHANGED <<run, clean, args, out, results, lvl>>

\* lines 24-30: git clone
ProvClone(rc) ==
    /\ pc = "provision"
    /\ ~tc.present
    /\ log' = Append(log, Ev("clone", rc, ""))
    /\ IF rc = 0
       THEN /\ \E script \in BOOLEAN :
                 tc' = [tc EXCEPT !.present = TRUE, !.script = script]
            /\ pc' = "build"
       ELSE /\ tc' = tc
            /\ pc' = "failed"
    /\ UNCHANGED <<run, clean, args, out, results, lvl>>

\* variant: the build's return code is not looked at
ProvBuild_IgnoreStatus(rc) ==
    /\ pc = "build"
    /\ \E quantize \in BOOLEAN :
         tc' = [tc EXCEPT !.built = (rc = 0), !.quantize = (rc = 0) /\ quantize]
    /\ log' = log \o <<Ev("make", rc, ""), Ev("toolchain_ready", 0, "")>>
    /\ pc' = "assets"
    /\ UNCHANGED <<run, clean, args, out, results, lvl>>

\* lines 32-39: make
ProvBuild(rc) ==
    /\ pc = "build"
    /\ IF rc = 0
       THEN /\ \E quantize \in BOOLEAN :
                 tc' = [tc EXCEPT !.built = TRUE, !.quantize = quantize]
            /\ log' = log \o <<Ev("make", rc, ""), Ev("toolchain_ready", 0, "")>>
            /\ pc' = "assets"
       ELSE /\ tc' = tc
            /\ log' = Append(log, Ev("make", rc, ""))
            /\ pc' = "failed"
    /\ UNCHANGED <<run, clean, args, out, results, lvl>>

(***************************************************************************)
(* convert_hf_to_ggml(), called from main() lines 296-301.  Every          *)
(* exception raised inside it is turned into a RuntimeError at lines       *)
(* 223-225, which main catches, logs and answers by returning.             *)
(***************************************************************************)
Max(a, b) == IF a >= b THEN a ELSE b

\* variant: a failed setup removes the assets directory again
AdaptAssets_WipeOnFailure(ok) ==
    /\ pc = "assets"
    /\ log' = Append(log, Ev("assets", Status(ok), ""))
    /\ IF ok
       THEN /\ tc' = [tc EXCEPT !.assets = 2]
            /\ pc' = "load"
       ELSE /\ tc' = [tc EXCEPT !.assets = 0]
            /\ pc' = "failed"
    /\ UNCHANGED <<run, clean, args, out, results, lvl>>

\* lines 135-139 and setup_whisper_assets, lines 70-128.  tc.assets is 0
\* when whisper/assets does not exist, 1 when only the directories do, 2
\* when mel_filters.npz and vocab.json both do.
AdaptAssets(ok) ==
    /\ pc = "assets"
    /\ log' = Append(log, Ev("assets", Status(ok), ""))
    /\ IF ok
       THEN /\ tc' = [tc EXCEPT !.assets = 2]
            /\ pc' = "load"
       ELSE /\ \E a \in {tc.assets, Max(tc.assets, 1)} :
                 tc' = [tc EXCEPT !.assets = a]
            /\ pc' = "failed"
    /\ UNCHANGED <<run, clean, args, out, results, lvl>>

\* lines 141-164: from_pretrained and the dims dictionary, which copies the
\* configuration's fields as they are
AdaptLoad(ok) ==
    /\ pc = "load"
    /\ log' = Append(log, Ev("load", Status(ok), ""))
    /\ pc' = IF ok THEN "save" ELSE "failed"
    /\ UNCHANGED <<run, clean, args, tc, out, results, lvl>>

\* lines 166-172: torch.save(checkpoint, compatible_pt)
AdaptSave(ok) ==
    /\ pc = "save"
    /\ log' = Append(log, Ev("save", Status(ok), ""))
    /\ IF ok
       THEN /\ out' = [out EXCEPT ![compatible_pt] = WrittenBy(run)]
            /\ pc' = "script"
       ELSE /\ out' = out
            /\ pc' = "failed"
    /\ UNCHANGED <<run, clean, args, tc, results, lvl>>

\* lines 174-181: the conversion script must exist
ConvScript ==
    /\ pc = "script"
    /\ log' = Append(log, Ev("script", Status(tc.script), ""))
    /\ pc' = IF tc.script THEN "converter" ELSE "failed"
    /\ UNCHANGED <<run, clean, args, tc, out, results, lvl>>

\* variant: the temporary checkpoint is removed when the converter fails
ConvRun_CleanupOnFailure(rc, written) ==
    /\ pc = "converter"
    /\ out' = [f \in OutputFiles |->
                 IF f \in written THEN WrittenBy(run)
                 ELSE IF f = compatible_pt /\ rc # 0 THEN Absent
                 ELSE out[f]]
    /\ log' = Append(log, Ev("converter", rc, ""))
    /\ pc' = IF rc = 0 THEN "scan" ELSE "failed"
    /\ UNCHANGED <<run, clean, args, tc, results, lvl>>

\* lines 184-197: the converter subprocess; it writes at most one file,
\* under a name of its choosing, into the output directory
ConvRun(rc, written) ==
    /\ pc = "converter"
    /\ out' = [f \in OutputFiles |->
                 IF f \in written THEN WrittenBy(run) ELSE out[f]]
    /\ log' = Append(log, Ev("converter", rc, ""))
    /\ pc' = IF rc = 0 THEN "scan" ELSE "failed"
    /\ UNCHANGED <<run, clean, args, tc, results, lvl>>

\* lines 203-206: the files of output_dir that pass the filter
ggml_files == { f \in OutputFiles : out[f] # Absent /\ IsGgmlFile(f) }

\* variant: the selected file is left under the converter's name
ConvScan_NoRename ==
    /\ pc = "scan"
    /\ IF ggml_files # {}
       THEN \E actual_output \in ggml_files :
              /\ out' = out
              /\ log' = Append(log, Ev("selected", 0, actual_output))
              /\ pc' = "unlink"
       ELSE /\ out' = out
            /\ log' = Append(log, Ev("selected", 1, ""))
            /\ pc' = "failed"
    /\ UNCHANGED <<run, clean, args, tc, results, lvl>>

\* variant: the rename raises when a file is already at the target
ConvScan_NoReplace ==
    /\ pc = "scan"
    /\ IF ggml_files # {}
       THEN \E actual_output \in ggml_files :
              IF actual_output # ggml_path /\ out[ggml_path] # Absent
              THEN /\ out' = out
                   /\ log' = Append(log, Ev("selected", 1, actual_output))
                   /\ pc' = "failed"
              ELSE /\ out' = [out EXCEPT ![ggml_path] = out[actual_output],
                                         ![actual_output] = Absent]
                   /\ log' = Append(log, Ev("selected", 0, actual_output))
                   /\ pc' = "unlink"
       ELSE /\ out' = out
            /\ log' = Append(log, Ev("selected", 1, ""))
            /\ pc' = "failed"
    /\ UNCHANGED <<run, clean, args, tc, results, lvl>>

\* lines 199-215: scan the output directory and rename ggml_files[0]; the
\* iteration order of a directory is arbitrary, so any candidate may be first
ConvScan ==
    /\ pc = "scan"
    /\ IF ggml_files # {}
       THEN \E actual_output \in ggml_files :
              /\ IF actual_output # ggml_path
                 THEN out' = [out EXCEPT ![ggml_path] = out[actual_output],
                                         ![actual_output] = Absent]
                 ELSE out' = out
              /\ log' = Append(log, Ev("selected", 0, actual_output))
              /\ pc' = "unlink"
       ELSE /\ out' = out
            /\ log' = Append(log, Ev("selected", 1, ""))
            /\ pc' = "failed"
    /\ UNCHANGED <<run, clean, args, tc, results, lvl>>

\* variant: args.skip_quantization is not looked at
ConvUnlink_IgnoreSkip(ok) ==
    /\ pc = "unlink"
    /\ IF ok
       THEN /\ out' = [out EXCEPT ![compatible_pt] = Absent]
            /\ log' = log \o <<Ev("unlink", 0, ""), Ev("converted", 0, "")>>
            /\ pc' = "quantize_check"
       ELSE /\ out' = out
            /\ log' = Append(log, Ev("unlink", 1, ""))
            /\ pc' = "failed"
    /\ UNCHANGED <<run, clean, args, tc, results, lvl>>

\* lines 217-221: compatible_pt.unlink(), then the return to main, line 304
ConvUnlink(ok) ==
    /\ pc = "unlink"
    /\ IF ok
       THEN /\ out' = [out EXCEPT ![compatible_pt] = Absent]
            /\ log' = log \o <<Ev("unlink", 0, ""), Ev("converted", 0, "")>>
            /\ pc' = IF args.skip THEN "report" ELSE "quantize_check"
       ELSE /\ out' = out
            /\ log' = Append(log, Ev("unlink", 1, ""))
            /\ pc' = "failed"
    /\ UNCHANGED <<run, clean, args, tc, results, lvl>>

(***************************************************************************)
(* quantize_model(), called from main() lines 304-321.  main catches       *)
(* RuntimeError only.                                                      *)
(***************************************************************************)
\* variant: the loop is entered without looking for the binary
QuantCheck_NoCheck ==
    /\ pc = "quantize_check"
    /\ log' = Append(log, Ev("quantize_binary", 0, ""))
    /\ pc' = "quantize"
    /\ UNCHANGED <<run, clean, args, tc, out, results, lvl>>

\* lines 229-232: the quantize binary must exist
QuantCheck ==
    /\ pc = "quantize_check"
    /\ log' = Append(log, Ev("quantize_binary", Status(tc.quantize), ""))
    /\ pc' = IF tc.quantize THEN "quantize" ELSE "report"
    /\ UNCHANGED <<run, clean, args, tc, out, results, lvl>>

\* variant: a level that exits non-zero is tried a second time
QuantLevel_RetryOnce(rc, wrote) ==
    /\ pc = "quantize"
    /\ LET quant_type == quantizations[lvl]
           output_path == QuantPath(quant_type)
           after == IF wrote THEN [out EXCEPT ![output_path] = WrittenBy(run)]
                             ELSE out
           next == IF lvl < Len(quantizations) THEN "quantize" ELSE "report"
           retry == rc # 0 /\ CountArg("quantizer", quant_type) = 0
       IN  /\ out' = after
           /\ log' = Append(log, Ev("quantizer", rc, quant_type))
           /\ IF rc = 0 /\ after[output_path] = Absent
              THEN /\ UNCHANGED <<results, lvl>>
                   /\ pc' = "aborted"
              ELSE /\ results' = IF rc = 0 THEN results \cup {quant_type}
                                           ELSE results
                   /\ lvl' = IF retry THEN lvl ELSE lvl + 1
                   /\ pc' = IF retry THEN "quantize" ELSE next
    /\ UNCHANGED <<run, clean, args, tc>>

\* lines 242-264: one iteration of the loop.  output_path.stat() raises
\* FileNotFoundError, which is no RuntimeError, when the path does not exist.
QuantLevel(rc, wrote) ==
    /\ pc = "quantize"
    /\ LET quant_type == quantizations[lvl]
           output_path == QuantPath(quant_type)
           after == IF wrote THEN [out EXCEPT ![output_path] = WrittenBy(run)]
                             ELSE out
           next == IF lvl < Len(quantizations) THEN "quantize" ELSE "report"
       IN  /\ out' = after
           /\ log' = Append(log, Ev("quantizer", rc, quant_type))
           /\ IF rc = 0
              THEN IF after[output_path] # Absent
                   THEN /\ results' = results \cup {quant_type}
                        /\ lvl' = lvl + 1
                        /\ pc' = next
                   ELSE /\ UNCHANGED <<results, lvl>>
                        /\ pc' = "aborted"
              ELSE /\ results' = results
                   /\ lvl' = lvl + 1
                   /\ pc' = next
    /\ UNCHANGED <<run, clean, args, tc>>

\* lines 323-325: "Model conversion complete!"
MainReport ==
    /\ pc = "report"
    /\ log' = Append(log, Ev("complete", 0, ""))
    /\ pc' = "done"
    /\ UNCHANGED <<run, clean, args, tc, out, results, lvl>>

Next ==
    \/ \E skip \in BOOLEAN, exists \in BOOLEAN, dims \in DimKinds :
          MainStart(skip, exists, dims)
    \/ ProvExists
    \/ \E rc \in RetCodes : ProvClone(rc)
    \/ \E rc \in RetCodes : ProvBuild(rc)
    \/ \E ok \in BOOLEAN : AdaptAssets(ok)
    \/ \E ok \in BOOLEAN : AdaptLoad(ok)
    \/ \E ok \in BOOLEAN : AdaptSave(ok)
    \/ ConvScript
    \/ \E rc \in RetCodes, f \in ConverterOutputs, wrote \in BOOLEAN :
          ConvRun(rc, IF wrote THEN {f} ELSE {})
    \/ ConvScan
    \/ \E ok \in BOOLEAN : ConvUnlink(ok)
    \/ QuantCheck
    \/ \E rc \in RetCodes, wrote \in BOOLEAN : QuantLevel(rc, wrote)
    \/ MainReport

Spec == Init /\ [][Next]_vars

(***************************************************************************)
(* Properties                                                              *)
(***************************************************************************)
\* the driver stage a position of main() belongs to
StageOf(p) ==
    CASE p \in {"provision", "build"} -> "PROVISION"
      [] p \in {"assets", "load", "save"} -> "ADAPT"
      [] p \in {"script", "converter", "scan", "unlink"} -> "CONVERT"
      [] p \in {"quantize_check", "quantize"} -> "QUANTIZE"
      [] p = "report" -> IF args.skip THEN "SKIP" ELSE "QUANTIZE"
      [] p = "done" -> "DONE"
      [] p = "failed" -> "FAILED"
      [] p = "aborted" -> "ABORTED"
      [] p = "returned" -> "RETURNED"
      [] OTHER -> "START"

\* stage changes of one run: the linear order, and FAILED from the first three
StageSteps ==
    { <<"PROVISION", "ADAPT">>, <<"ADAPT", "CONVERT">>,
      <<"CONVERT", "QUANTIZE">>, <<"CONVERT", "SKIP">>,
      <<"QUANTIZE", "DONE">>, <<"SKIP", "DONE">>,
      <<"PROVISION", "FAILED">>, <<"ADAPT", "FAILED">>,
      <<"CONVERT", "FAILED">>,
      \* an exception escaping quantize_model starts no stage
      <<"QUANTIZE", "ABORTED">> }

ProvisionOps == {"clone", "make", "toolchain_ready"}
AdaptOps == {"assets", "load", "save"}
ConvertOps == {"script", "converter", "selected", "unlink", "converted"}
QuantizeOps == {"quantize_binary", "quantizer"}

Before(i, op) == \E j \in 1..(i - 1) : log[j].op = op /\ log[j].rc = 0

\* every step of a stage is preceded by the successful end of the stage before
LogInStageOrder ==
    \A i \in DOMAIN log :
        /\ log[i].op \in AdaptOps => Before(i, "toolchain_ready")
        /\ log[i].op \in ConvertOps => Before(i, "save")
        /\ log[i].op \in QuantizeOps => Before(i, "converted") /\ ~args.skip
        /\ log[i].op = "complete" =>
              /\ Before(i, "converted")
              /\ args.skip \/ \E j \in 1..(i - 1) : log[j].op \in QuantizeOps

\* a failed step of the first three stages is the last step of its run
FailureEndsRun ==
    /\ \A i \in DOMAIN log :
          (log[i].rc # 0 /\ log[i].op \in ProvisionOps \cup AdaptOps \cup ConvertOps)
              => (i = Len(log) /\ pc = "failed")
    /\ pc = "failed" =>
          /\ log # <<>> /\ log[Len(log)].rc # 0
          /\ ~Logged("quantizer") /\ ~Logged("complete")

\* C1: within a run the stages are entered only in the order PROVISION, ADAPT,
\* CONVERT, QUANTIZE or SKIP, DONE, each after the successful end of the one
\* before; a failure in PROVISION, ADAPT or CONVERT leads to FAILED, after which
\* the run invokes neither converter nor quantizer and reports no success.
C1_StageOrder ==
    /\ [](LogInStageOrder /\ FailureEndsRun)
    /\ [][run' = run =>
            \/ StageOf(pc') = StageOf(pc)
            \/ <<StageOf(pc), StageOf(pc')>> \in StageSteps]_vars

C1_Witness ==
    /\ pc = "done" /\ ~args.skip
    /\ \A q \in QuantLevels : CountArg("quantizer", q) = 1

\* C2: once convert_hf_to_ggml has returned, the run does not fail or abort,
\* and it ends with the completion report, whatever the quantizer does.
C2_QuantizeNeverFatal ==
    Logged("converted") =>
        /\ pc \in {"quantize_check", "quantize", "report", "done"}
        /\ pc \in Final => Logged("complete")

\* levels whose invocation has been made, and those that exited zero
Attempted == { q \in QuantLevels : CountArg("quantizer", q) > 0 }
ExitedZero ==
    { q \in QuantLevels :
        \E i \in DOMAIN log : log[i] = Ev("quantizer", 0, q) }

\* C3: when quantize_model has ended after finding the binary, all three levels
\* have been attempted and results holds exactly the levels that exited zero.
C3_AllLevelsAttempted ==
    (LoggedRc("quantize_binary", 0) /\ pc \in {"report", "done", "aborted"}) =>
        /\ Attempted = QuantLevels
        /\ results = ExitedZero

NoQuantOutputThisRun ==
    \A q \in QuantLevels : out[QuantPath(q)] # WrittenBy(run)

\* C4: if the quantize binary does not exist, quantize_model raises before the
\* loop: no quantizer invocation, no quantized file written, no result.
C4_QuantizerMissing ==
    (Logged("quantize_binary") /\ ~tc.quantize) =>
        /\ LoggedRc("quantize_binary", 1)
        /\ ~Logged("quantizer")
        /\ NoQuantOutputThisRun
        /\ results = {}

C4_Witness ==
    pc = "done" /\ LoggedRc("quantize_binary", 1)

\* C5: with skip_quantization, a run whose conversion succeeded goes straight
\* to the completion report: the binary is not looked for, the quantizer is
\* not invoked, no quantized file is written and results stays empty.
C5_SkipQuantization ==
    (args.skip /\ Logged("converted")) =>
        /\ pc \in {"report", "done"}
        /\ pc = "done" => Logged("complete")
        /\ ~Logged("quantize_binary")
        /\ ~Logged("quantizer")
        /\ NoQuantOutputThisRun
        /\ results = {}

C5_Witness ==
    args.skip /\ pc = "done" /\ Logged("complete")

\* C6: whenever download_whisper_cpp has returned the installation, the
\* installation exists and its build has succeeded in this run or an earlier one.
C6_ReturnedMeansBuilt ==
    Logged("toolchain_ready") => (tc.present /\ tc.built)

\* C7: if ./whisper.cpp exists, download_whisper_cpp returns it at once: no
\* clone, no make, the installation unchanged, and nothing but existence tested.
C7_ExistingReturnedUnchanged ==
    [][(pc = "provision" /\ tc.present /\ run' = run) =>
          /\ tc' = tc
          /\ log' = <<Ev("toolchain_ready", 0, "")>>
          /\ pc' = "assets"]_vars

C7_Witness ==
    /\ log # <<>> /\ log[1].op = "toolchain_ready"
    /\ tc.present /\ ~tc.built

\* C8: with ./whisper.cpp absent, a non-zero clone ends the run as failed with
\* no make, and a non-zero make ends it as failed; in both cases nothing else
\* was invoked in the run (no adapter, no converter, no second clone or make).
C8_ProvisioningFailure ==
    /\ LoggedRc("clone", 1) =>
          (pc = "failed" /\ log = <<Ev("clone", 1, "")>>)
    /\ LoggedRc("make", 1) =>
          (pc = "failed" /\ log = <<Ev("clone", 0, ""), Ev("make", 1, "")>>)
    /\ Count("clone") <= 1 /\ Count("make") <= 1

C8_Witness ==
    pc = "failed" /\ LoggedRc("make", 1)

\* C9 (as claimed): after a non-zero converter exit, convert_hf_to_ggml has
\* failed and whisper_compatible.pt does not exist.
C9_NoIntermediateAfterFailure ==
    LoggedRc("converter", 1) =>
        (pc = "failed" /\ out[compatible_pt] = Absent)

\* C9 (amended): after a non-zero converter exit, convert_hf_to_ggml has failed
\* and whisper_compatible.pt, written by this run, is still in place.
C9_IntermediateKeptAfterFailure ==
    LoggedRc("converter", 1) =>
        (pc = "failed" /\ out[compatible_pt] = WrittenBy(run))

C9_Witness ==
    pc = "failed" /\ LoggedRc("converter", 1) /\ run = 1

\* C10: after a successful return of convert_hf_to_ggml, whisper_compatible.pt
\* does not exist and a file exists at ggml_path.
C10_SuccessPostcondition ==
    Logged("converted") =>
        (out[compatible_pt] = Absent /\ out[ggml_path] # Absent)

C10_Witness ==
    Logged("converted") /\ pc \in {"report", "quantize_check"}

\* C11: when the selected artifact has been put at ggml_path and
\* compatible_pt.unlink() then fails, convert_hf_to_ggml still returns normally
\* and main goes on to quantization or to the completion report.
C11_UnlinkFailureNotFatal ==
    LoggedRc("unlink", 1) =>
        /\ pc # "failed"
        /\ pc \in Final => Logged("complete")

\* C12: for a checkpoint with a dimension field missing, zero or negative,
\* the adaptation fails: whisper_compatible.pt is not written and the
\* converter is not invoked.
C12_InvalidDimsRejected ==
    (run >= 1 /\ args.dims # "positive") =>
        /\ ~LoggedRc("save", 0)
        /\ ~Logged("converter")
        /\ out[compatible_pt] # WrittenBy(run)

\* the names of the output directory that carry the marker and a binary suffix
MarkedNames ==
    { FileName(<<"ggml", "model", "f32">>, "bin"),
      FileName(<<"ggml", "model">>, "bin") }

\* C13: the scan after a zero converter exit considers exactly the existing
\* files whose name contains "ggml" and whose suffix is .bin or .ggml.  With
\* none, convert_hf_to_ggml fails and the directory is unchanged; otherwise one
\* of them (the first the directory yields) is moved to ggml_path, and no
\* other file changes.
C13_DiscoverAndRename ==
    [][(pc = "scan" /\ run' = run) =>
          LET candidates == { f \in MarkedNames : out[f] # Absent }
          IN  IF candidates = {}
              THEN pc' = "failed" /\ out' = out
              ELSE /\ pc' = "unlink"
                   /\ \E f \in candidates :
                        /\ log'[Len(log')] = Ev("selected", 0, f)
                        /\ out'[ggml_path] = out[f]
                        /\ out'[f] = Absent
                        /\ \A g \in OutputFiles \ {f, ggml_path} :
                              out'[g] = out[g]]_vars

\* a selection was made among two candidates: one is left in the directory
C13_Witness ==
    /\ pc = "unlink"
    /\ out[ggml_path] # Absent
    /\ \E f \in MarkedNames : out[f] # Absent

\* C14: in a sequence of runs that starts with an empty output directory and in
\* which every earlier run converted successfully, a run whose converter left
\* its artifact converts successfully too, and its artifact is at ggml_path: the
\* file an earlier run left there neither fails the run nor diverts the result.
C14_RepeatedConvert ==
    /\ []((clean /\ Logged("converted")) => out[ggml_path] = WrittenBy(run))
    /\ [][(/\ clean /\ pc = "scan" /\ run' = run
           /\ \E f \in MarkedNames : out[f] = WrittenBy(run)) =>
              (pc' = "unlink" /\ out'[ggml_path] = WrittenBy(run))]_vars

C14_Witness ==
    run = 2 /\ clean /\ Logged("converted") /\ out[ggml_path] = WrittenBy(2)

\* C15: a run whose model path does not exist returns at once: no step of any
\* stage is taken (no clone, make, adaptation, converter or quantizer), and the
\* toolchain and the files of the output directory are as they were.
C15_MissingCheckpoint ==
    /\ []((run >= 1 /\ ~args.exists) => (pc = "returned" /\ log = <<>>))
    /\ [][(run' # run /\ ~args'.exists) =>
             (pc' = "returned" /\ tc' = tc /\ out' = out)]_vars

C15_Witness ==
    run = 2 /\ pc = "returned" /\ ~args.exists /\ tc.present

\* C16 (as claimed): once download_whisper_cpp has returned, the rest of the
\* run changes nothing inside ./whisper.cpp.
C16_ToolchainReadOnly ==
    [][(Logged("toolchain_ready") /\ run' = run) => tc' = tc]_vars

\* C16 (amended): once download_whisper_cpp has returned, the only change the
\* rest of the run makes inside ./whisper.cpp is that setup_whisper_assets, at
\* the start of convert_hf_to_ggml, adds the missing whisper/assets entries;
\* nothing existing is modified or removed, and the later steps write nothing.
C16_OnlyAssetsAdded ==
    [][(Logged("toolchain_ready") /\ run' = run) =>
          /\ tc'.present = tc.present
          /\ tc'.built = tc.built
          /\ tc'.script = tc.script
          /\ tc'.quantize = tc.quantize
          /\ tc'.assets >= tc.assets
          /\ tc' # tc => pc = "assets"]_vars

C16_Witness ==
    run = 1 /\ Logged("toolchain_ready") /\ pc = "load" /\ tc.assets = 2

\* the levels of the quantizer invocations of this run, in the order made
QuantizerCalls ==
    LET IsCall(e) == e.op = "quantizer"
        calls == SelectSeq(log, IsCall)
    IN  [i \in DOMAIN calls |-> calls[i].arg]

ExpectedOrder == <<"q8_0", "q5_0", "q4_0">>

\* C17: the quantizer is invoked for q8_0, q5_0, q4_0 in this order, each with
\* the output path whisper-atc-<level>.bin; these paths differ from each other
\* and from ggml_path, and an invocation changes at most its own output file,
\* so whisper-atc.bin and the other levels' outputs are left as they were.
C17_QuantizeOrderAndPaths ==
    /\ [](/\ Len(QuantizerCalls) <= Len(ExpectedOrder)
          /\ \A i \in DOMAIN QuantizerCalls :
                QuantizerCalls[i] = ExpectedOrder[i]
          /\ \A q \in QuantLevels :
                /\ QuantPath(q) # ggml_path
                /\ \A r \in QuantLevels \ {q} : QuantPath(q) # QuantPath(r))
    /\ [][(pc = "quantize" /\ run' = run) =>
             LET q == ExpectedOrder[Len(QuantizerCalls) + 1]
                 own == FileName(<<"whisper", "atc", q>>, "bin")
             IN  /\ log'[Len(log')].op = "quantizer"
                 /\ log'[Len(log')].arg = q
                 /\ out'[ggml_path] = out[ggml_path]
                 /\ \A f \in OutputFiles \ {own} : out'[f] = out[f]]_vars

C17_Witness ==
    /\ pc = "done"
    /\ out[ggml_path] = WrittenBy(run)
    /\ \A q \in QuantLevels : out[QuantPath(q)] = WrittenBy(run)

\* C18: nothing is retried: in one run git clone, make and the converter are
\* each invoked at most once, and the quantizer at most once per level,
\* whatever the exit statuses.
C18_NoRetries ==
    /\ Count("clone") <= 1
    /\ Count("make") <= 1
    /\ Count("converter") <= 1
    /\ \A q \in QuantLevels : CountArg("quantizer", q) <= 1

\* a run that went on to its end after a level had exited non-zero
C18_Witness ==
    /\ pc = "done"
    /\ LoggedRc("quantizer", 1)
    /\ \A q \in QuantLevels : CountArg("quantizer", q) = 1

\* C19: after a successful return of convert_hf_to_ggml the file at ggml_path
\* is one the converter wrote in this run, never a candidate that was in the
\* output directory before the converter was invoked.
C19_ResultIsFresh ==
    Logged("converted") => out[ggml_path] = WrittenBy(run)

====
